---- MODULE Spec2Model ----
(***************************************************************************)
(* Neurapath: resume-vs-role gap analysis (neurapath_demo.ipynb).          *)
(*                                                                         *)
(* The notebook's tables are modelled as [cols, rows]: cols is the column  *)
(* list of the DataFrame, rows the sequence of its rows (records).  Text   *)
(* is a sequence of one-character strings.  Quotients (pct_jobs, the fit   *)
(* score) are kept as exact fractions [num, den]; the notebook computes    *)
(* them in binary floating point, which agrees with the exact value for    *)
(* the integer weights and small counts used here.                         *)
(***************************************************************************)
EXTENDS Integers, Sequences, FiniteSets, TLC

VARIABLES skills, job_skills, industries, job_industries, resume_text,
          job_roles, role_profiles, pc, ret

vars == <<skills, job_skills, industries, job_industries, resume_text,
          job_roles, role_profiles, pc, ret>>

\* ------------------------------------------------------------------ text

LC == <<"a", "b", "c", "d", "e", "f", "g", "h", "i", "j", "k", "l", "m",
        "n", "o", "p", "q", "r", "s", "t", "u", "v", "w", "x", "y", "z">>
UC == <<"A", "B", "C", "D", "E", "F", "G", "H", "I", "J", "K", "L", "M",
        "N", "O", "P", "Q", "R", "S", "T", "U", "V", "W", "X", "Y", "Z">>
Digits == {"0", "1", "2", "3", "4", "5", "6", "7", "8", "9"}

Range(s) == {s[i] : i \in DOMAIN s}

\* the lower-case letter of each upper-case letter
LowerOf == [c \in Range(UC) |-> LC[CHOOSE i \in DOMAIN UC : UC[i] = c]]

\* str.lower(), one character
LowerChar(c) == IF c \in DOMAIN LowerOf THEN LowerOf[c] ELSE c

\* str.lower()
Lower(s) == SubSeq([i \in DOMAIN s |-> LowerChar(s[i])], 1, Len(s))

TokenChars == Range(LC) \cup Digits

WordChars == Range(LC) \cup Range(UC) \cup Digits \cup {"_"}

\* the character class [a-z0-9] of the pattern regex
IsTokenChar(c) == c \in TokenChars

\* the regex class \w, on which \b is defined
IsWordChar(c) == c \in WordChars

\* `kw in name_l`: kw occurs as a contiguous substring of s
IsSubstring(kw, s) ==
    \E i \in 0..(Len(s) - Len(kw)) :
        \A k \in 1..Len(kw) : s[i + k] = kw[k]

\* ------------------------------------------------------- role configuration

RoleOrder == <<"DATA_ANALYST", "ML_ENGINEER", "NETWORK_ADMIN", "FRONTEND_DEV",
               "IT_SUPPORT">>

Roles == Range(RoleOrder)

ROLE_KEYWORDS ==
    [r \in Roles |->
        CASE r = "DATA_ANALYST" ->
               << <<"d", "a", "t", "a">>,
                  <<"a", "n", "a", "l", "y", "t", "i", "c", "s">> >>
          [] r = "ML_ENGINEER" ->
               << <<"s", "o", "f", "t", "w", "a", "r", "e">>,
                  <<"t", "e", "c", "h", "n", "o", "l", "o", "g", "y">>,
                  <<"s", "e", "c", "u", "r", "i", "t", "y">> >>
          [] r = "NETWORK_ADMIN" ->
               << <<"n", "e", "t", "w", "o", "r", "k">>,
                  <<"t", "e", "l", "e", "c", "o", "m", "m", "u", "n", "i", "c",
                    "a", "t", "i", "o", "n", "s">>,
                  <<"i", "t", " ", "s", "y", "s", "t", "e", "m">> >>
          [] r = "FRONTEND_DEV" ->
               << <<"i", "n", "t", "e", "r", "n", "e", "t">>,
                  <<"s", "o", "f", "t", "w", "a", "r", "e">>,
                  <<"w", "e", "b">> >>
          [] r = "IT_SUPPORT" ->
               << <<"c", "o", "n", "s", "u", "l", "t">>,
                  <<"i", "t", " ", "s", "e", "r", "v", "i", "c", "e", "s">>,
                  <<"s", "e", "r", "v", "i", "c", "e", "s">> >>]

\* assign_role_from_industry: the roles one of whose keywords occurs in the
\* lower-cased name, in the order of ROLE_KEYWORDS
assign_role_from_industry(industry_name) ==
    LET name_l == Lower(industry_name)
    IN  SelectSeq(RoleOrder,
                  LAMBDA r : \E kw \in Range(ROLE_KEYWORDS[r]) : IsSubstring(kw, name_l))

\* ------------------------------------------------------------ table helpers

RECURSIVE Flatten(_)
\* the concatenation of a sequence of sequences
Flatten(ss) == IF ss = <<>> THEN <<>> ELSE Head(ss) \o Flatten(Tail(ss))

\* the rows of a sequence, each mapped by F
MapSeq(s, F(_)) == SubSeq([i \in DOMAIN s |-> F(s[i])], 1, Len(s))

\* the cell of a missing value (NaN / None)
NaN == <<"NaN">>

\* DataFrame(): no columns, no rows
EmptyFrame == [cols |-> <<>>, rows |-> <<>>]

HasColumn(df, c) == c \in Range(df.cols)

\* a variant of AssignRolesColumn that keeps only the industries with a role
AssignRolesColumn_DropUnassigned(df) ==
    [cols |-> Append(df.cols, "roles"),
     rows |-> SelectSeq([i \in DOMAIN df.rows |->
                            ("roles" :> assign_role_from_industry(df.rows[i].industry_name))
                            @@ df.rows[i]],
                        LAMBDA row : row.roles # <<>>)]

\* industries["roles"] = industries["industry_name"].apply(assign_role_from_industry)
\* (the assignment appends the column to the frame it is given)
AssignRolesColumn(df) ==
    [cols |-> Append(df.cols, "roles"),
     rows |-> MapSeq(df.rows,
                     LAMBDA row : ("roles" :> assign_role_from_industry(row.industry_name))
                                  @@ row)]

\* industries.explode("roles").dropna(subset=["roles"]).rename(columns={"roles": "role"}),
\* projected on [industry_id, role]: one row per (industry, role); an industry
\* with no role explodes to a NaN row, which dropna removes
ExplodeRoles(df) ==
    Flatten([i \in DOMAIN df.rows |->
                [k \in DOMAIN df.rows[i].roles |->
                    [industry_id |-> df.rows[i].industry_id,
                     role |-> df.rows[i].roles[k]]]])

\* job_industries.merge(ind_role[["industry_id", "role"]], on="industry_id", how="inner")
MergeJobRoles(ji, ind_role) ==
    [cols |-> ji.cols \o <<"role">>,
     rows |-> Flatten([i \in DOMAIN ji.rows |->
                 MapSeq(SelectSeq(ind_role,
                                  LAMBDA ir : ir.industry_id = ji.rows[i].industry_id),
                        LAMBDA ir : ("role" :> ir.role) @@ ji.rows[i])])]

\* ------------------------------------------------------------ role profiles

\* exact fractions with positive denominators
Frac(n, d) == [num |-> n, den |-> d]

FracGE(a, b) == a.num * b.den >= b.num * a.den

FracEq(a, b) == a.num * b.den = b.num * a.den

\* a variant of JobIdsOfRole without the filter on the role
JobIdsOfRole_AnyRole(role) ==
    {job_roles.rows[i].job_id : i \in DOMAIN job_roles.rows}

\* job_roles.loc[job_roles.role == role, "job_id"].unique()
JobIdsOfRole(role) ==
    {job_roles.rows[i].job_id :
        i \in {k \in DOMAIN job_roles.rows : job_roles.rows[k].role = role}}

\* job_skills[job_skills.job_id.isin(job_ids)]
LinksOfJobs(job_ids) ==
    SelectSeq(job_skills.rows, LAMBDA l : l.job_id \in job_ids)

RECURSIVE Distinct(_)
\* the distinct values of a sequence, in order of first appearance
Distinct(s) ==
    IF s = <<>> THEN <<>>
    ELSE <<Head(s)>> \o Distinct(SelectSeq(Tail(s), LAMBDA x : x # Head(s)))

\* the number of rows of js with this skill_abr
CountRows(js, abr) == Len(SelectSeq(js, LAMBDA l : l.skill_abr = abr))

RECURSIVE InsertByCount(_, _)
\* stable insertion into a sequence ordered by count descending
InsertByCount(sorted, row) ==
    IF sorted = <<>> THEN <<row>>
    ELSE IF Head(sorted).count >= row.count
         THEN <<Head(sorted)>> \o InsertByCount(Tail(sorted), row)
         ELSE <<row>> \o sorted

RECURSIVE SortByCount(_)
SortByCount(rows) ==
    IF rows = <<>> THEN <<>>
    ELSE InsertByCount(SortByCount(SubSeq(rows, 1, Len(rows) - 1)), rows[Len(rows)])

\* js.skill_abr.value_counts().rename("count").reset_index(): one row per
\* distinct skill_abr with the number of its rows, most frequent first
ValueCounts(js) ==
    SortByCount(MapSeq(Distinct(MapSeq(js, LAMBDA l : l.skill_abr)),
                       LAMBDA a : [skill_abr |-> a, count |-> CountRows(js, a)]))

\* freq["count"] / len(job_ids)
PctJobs(count, n) == Frac(count, n)

\* the columns a merge on skill_abr brings from the right table
OtherCols(df) == SelectSeq(df.cols, LAMBDA c : c # "skill_abr")

\* a variant of MergeLeft that merges with how="inner"
MergeLeft_Inner(freq, sk) ==
    Flatten([i \in DOMAIN freq |->
        MapSeq(SelectSeq(sk.rows, LAMBDA s : s.skill_abr = freq[i].skill_abr),
               LAMBDA s : freq[i] @@ s)])

\* freq.merge(skills, on="skill_abr", how="left"): every left row is kept; one
\* output row per matching catalog row, or one row of NaN when none matches
MergeLeft(freq, sk) ==
    Flatten([i \in DOMAIN freq |->
        LET m == SelectSeq(sk.rows, LAMBDA s : s.skill_abr = freq[i].skill_abr)
        IN  IF m = <<>>
            THEN << freq[i] @@ [c \in Range(OtherCols(sk)) |-> NaN] >>
            ELSE MapSeq(m, LAMBDA s : freq[i] @@ s)])

\* freq["pct_jobs"] >= required_pct
IsRequired(pct_jobs, required_pct) == FracGE(pct_jobs, required_pct)

\* is the sequence ordered by pct_jobs descending
IsSortedDesc(rows) ==
    \A i \in 1..(Len(rows) - 1) : FracGE(rows[i].pct_jobs, rows[i + 1].pct_jobs)

\* the permutations of the rows of a sequence
Permutations1(rows) ==
    {[i \in DOMAIN rows |-> rows[p[i]]] :
        p \in {q \in [DOMAIN rows -> DOMAIN rows] :
                  \A i, j \in DOMAIN rows : q[i] = q[j] => i = j}}

\* a variant of SortValuesDesc that sorts with ascending=True
SortValuesDesc_Ascending(rows) ==
    {s \in Permutations1(rows) :
        \A i \in 1..(Len(s) - 1) : FracGE(s[i + 1].pct_jobs, s[i].pct_jobs)}

\* sort_values("pct_jobs", ascending=False): the sort is not stable (quicksort),
\* so rows of equal pct_jobs may come out in any order
SortValuesDesc(rows) == {s \in Permutations1(rows) : IsSortedDesc(s)}

\* the rows of the profile before the final sort (lines 217-222)
ProfileRows(role, job_ids, required_pct) ==
    LET js   == LinksOfJobs(job_ids)
        freq == MapSeq(ValueCounts(js),
                       LAMBDA f : ("pct_jobs" :> PctJobs(f.count, Cardinality(job_ids))) @@ f)
    IN  MapSeq(MergeLeft(freq, skills),
               LAMBDA e : ("required" :> IsRequired(e.pct_jobs, required_pct))
                          @@ ("role" :> role) @@ e)

\* build_role_skill_profile: the profiles the call can return
build_role_skill_profile(role, min_jobs, required_pct) ==
    LET job_ids == JobIdsOfRole(role)
    IN  IF Cardinality(job_ids) = 0
        THEN {EmptyFrame}
        ELSE {[cols |-> <<"skill_abr", "count", "pct_jobs">> \o OtherCols(skills)
                        \o <<"required", "role">>,
               rows |-> s] :
                 s \in SortValuesDesc(ProfileRows(role, job_ids, required_pct))}

\* the defaults of build_role_skill_profile
DefaultMinJobs == 50

DefaultRequiredPct == Frac(3, 10)

\* ------------------------------------------------------- resume extraction

RECURSIVE SkipSeparators(_)
\* the rest of a string after a maximal run of characters outside [a-z0-9]
SkipSeparators(s) ==
    IF s = <<>> \/ IsTokenChar(Head(s)) THEN s ELSE SkipSeparators(Tail(s))

RECURSIVE ReplaceRuns(_)
\* str.replace(r"[^a-z0-9]+", "|", regex=True)
ReplaceRuns(s) ==
    IF s = <<>> THEN <<>>
    ELSE IF IsTokenChar(Head(s))
         THEN <<Head(s)>> \o ReplaceRuns(Tail(s))
         ELSE <<"|">> \o ReplaceRuns(SkipSeparators(Tail(s)))

\* skills["skill_name"].str.lower().str.replace(...)
SkillPattern(skill_name) == ReplaceRuns(Lower(skill_name))

\* skills["pattern"] = ...: the assignment appends the column to the frame
AddPatternColumn(df) ==
    [cols |-> Append(df.cols, "pattern"),
     rows |-> MapSeq(df.rows,
                     LAMBDA row : ("pattern" :> SkillPattern(row.skill_name)) @@ row)]

RECURSIVE Alternatives(_)
\* the alternatives of the regex group (pat): the pieces of pat between the
\* "|" characters, empty pieces included
Alternatives(pat) ==
    IF \A i \in DOMAIN pat : pat[i] # "|"
    THEN <<pat>>
    ELSE LET k == CHOOSE i \in DOMAIN pat :
                     pat[i] = "|" /\ \A j \in 1..(i - 1) : pat[j] # "|"
         IN  <<SubSeq(pat, 1, k - 1)>> \o Alternatives(SubSeq(pat, k + 1, Len(pat)))

\* \b between positions p and p+1 of text (p = 0 is the start, Len the end)
WordBoundary(text, p) ==
    (p >= 1 /\ IsWordChar(text[p])) # (p < Len(text) /\ IsWordChar(text[p + 1]))

\* alt occupies text[i+1 .. i+Len(alt)]
MatchesAt(alt, text, i) ==
    /\ i + Len(alt) <= Len(text)
    /\ \A k \in 1..Len(alt) : text[i + k] = alt[k]

\* re.search(r"\b(" + pat + r")\b", text)
Search(pat, text) ==
    \E alt \in Range(Alternatives(pat)) :
        \E i \in 0..Len(text) :
            /\ MatchesAt(alt, text, i)
            /\ WordBoundary(text, i)
            /\ WordBoundary(text, i + Len(alt))

\* `if not pat or pat == "|": continue`
IsSkipped(pat) == pat = <<>> \/ pat = <<"|">>

\* extract_resume_skills
extract_resume_skills(text) ==
    {skills.rows[i].skill_abr :
        i \in {k \in DOMAIN skills.rows :
                  /\ ~IsSkipped(skills.rows[k].pattern)
                  /\ Search(skills.rows[k].pattern, Lower(text))}}

\* ---------------------------------------------------------------- fit score

\* role_profile.loc[role_profile.required, "skill_abr"]
RequiredSet(profile) ==
    {profile.rows[i].skill_abr :
        i \in {k \in DOMAIN profile.rows : profile.rows[k].required}}

\* role_profile.loc[~role_profile.required, "skill_abr"]
OptionalSet(profile) ==
    {profile.rows[i].skill_abr :
        i \in {k \in DOMAIN profile.rows : ~profile.rows[k].required}}

RECURSIVE Accumulate(_, _, _, _)
\* the loop `for s in resume_skills`, in the iteration order given
Accumulate(order, req, opt, required_weight) ==
    IF order = <<>> THEN 0
    ELSE (IF Head(order) \in req THEN required_weight
          ELSE IF Head(order) \in opt THEN 1
          ELSE 0)
         + Accumulate(Tail(order), req, opt, required_weight)

\* a returned value, or the exception raised
Returned(v) == [raised |-> FALSE, value |-> v]

Raised == [raised |-> TRUE, value |-> NaN]

\* fit_score; `order` is the order in which the set resume_skills is iterated.
\* A frame without a `required` column has no attribute of that name: the
\* first line raises AttributeError
fit_score(order, role_profile, required_weight) ==
    IF ~HasColumn(role_profile, "required")
    THEN Raised
    ELSE LET req   == RequiredSet(role_profile)
             opt   == OptionalSet(role_profile)
             denom == required_weight * Cardinality(req) + Cardinality(opt)
             score == Accumulate(order, req, opt, required_weight)
         IN  Returned(IF denom # 0 THEN Frac(score, denom) ELSE Frac(0, 1))

\* the default of fit_score
DefaultRequiredWeight == 2

\* ------------------------------------------------------------------- report

\* round(score, 2), in hundredths, for a fraction with a positive denominator:
\* to nearest, a tie to the even hundredth
Round2(f) ==
    LET q == (100 * f.num) \div f.den
        r == (100 * f.num) % f.den
    IN  IF 2 * r < f.den THEN q
        ELSE IF 2 * r > f.den THEN q + 1
        ELSE IF q % 2 = 0 THEN q ELSE q + 1

\* prof.loc[prof.skill_abr.isin(rskills), "skill_name"].tolist()
MatchedSkills(prof, rskills) ==
    MapSeq(SelectSeq(prof.rows, LAMBDA e : e.skill_abr \in rskills),
           LAMBDA e : e.skill_name)

\* a variant of MissingSkills without `& prof.required`
MissingSkills_AnyAbsent(prof, rskills) ==
    MapSeq(SelectSeq(prof.rows, LAMBDA e : e.skill_abr \notin rskills),
           LAMBDA e : e.skill_name)

\* prof.loc[~prof.skill_abr.isin(rskills) & prof.required, "skill_name"].tolist()
MissingSkills(prof, rskills) ==
    MapSeq(SelectSeq(prof.rows, LAMBDA e : e.skill_abr \notin rskills /\ e.required),
           LAMBDA e : e.skill_name)

\* build_fit_report; `order` is the iteration order of the extracted set
build_fit_report(resume_id, text, role, order) ==
    LET rskills == Range(order)
        prof    == role_profiles[role]
        score   == fit_score(order, prof, DefaultRequiredWeight)
    IN  IF score.raised
        THEN Raised
        ELSE Returned([resume_id |-> resume_id,
                       role |-> role,
                       fit_score |-> Round2(score.value),
                       matched_skills |-> MatchedSkills(prof, rskills),
                       missing_skills |-> MissingSkills(prof, rskills)])

\* the orders in which a set can be iterated
Orders(S) ==
    {o \in [1..Cardinality(S) -> S] : \A i, j \in DOMAIN o : o[i] = o[j] => i = j}

\* ------------------------------------------------------------ input tables

\* the sequences over S of length at most n
SeqsUpTo(S, n) == UNION {[1..k -> S] : k \in 0..n}

\* the most rows of job-skill links delivered
MaxLinks == 3

\* the longest resume text delivered
MaxText == 3

SkillsTable(rows) == [cols |-> <<"skill_abr", "skill_name">>, rows |-> rows]

JobSkillsTable(rows) == [cols |-> <<"job_id", "skill_abr">>, rows |-> rows]

IndustriesTable(rows) == [cols |-> <<"industry_id", "industry_name">>, rows |-> rows]

JobIndustriesTable(rows) == [cols |-> <<"job_id", "industry_id">>, rows |-> rows]

Python == <<"P", "y", "t", "h", "o", "n">>

SQL == <<"S", "Q", "L">>

Excel == <<"E", "x", "c", "e", "l">>

\* an industry of two roles, one of a single role, one of none
IndustryCatalog ==
    IndustriesTable(<<
        [industry_id |-> "I1", industry_name |-> <<"S", "o", "f", "t", "w", "a", "r", "e">>],
        [industry_id |-> "I2", industry_name |-> <<"I", "n", "t", "e", "r", "n", "e", "t">>],
        [industry_id |-> "I3", industry_name |-> <<"F", "a", "r", "m", "i", "n", "g">>] >>)

\* job-industry links: each job of `jobs` linked to the industries f[job]
JobIndustryLinks(jobs, f) ==
    JobIndustriesTable(Flatten([i \in DOMAIN jobs |->
        MapSeq(f[jobs[i]], LAMBDA ind : [job_id |-> jobs[i], industry_id |-> ind])]))

\* job-skill links over the given jobs and skills, duplicates included
JobSkillLinks(jobs, abrs) ==
    {JobSkillsTable(rows) :
        rows \in SeqsUpTo([job_id : jobs, skill_abr : abrs], MaxLinks)}

\* the pipeline has produced nothing yet
NothingDerived ==
    /\ job_roles = EmptyFrame
    /\ role_profiles = <<>>
    /\ pc = "loaded"
    /\ ret = [op |-> "none"]

\* inputs that vary the role-job index and the links
InitProfile ==
    /\ skills \in {SkillsTable(rows) :
           rows \in { << [skill_abr |-> "S1", skill_name |-> Python],
                         [skill_abr |-> "S2", skill_name |-> SQL] >>,
                      << [skill_abr |-> "S2", skill_name |-> SQL],
                         [skill_abr |-> "S1", skill_name |-> Python] >>,
                      << [skill_abr |-> "S1", skill_name |-> Python] >> }}
    /\ industries = IndustryCatalog
    /\ job_industries \in
           {JobIndustryLinks(<<"J1", "J2">>, f) :
               f \in [{"J1", "J2"} -> {<<>>, <<"I1">>, <<"I1", "I2">>, <<"I3">>}]}
    /\ job_skills \in JobSkillLinks({"J1", "J2"}, {"S1", "S2"})
    /\ resume_text = Python
    /\ NothingDerived

\* inputs that vary the profile a score is computed against: four jobs of the
\* role, so that a skill of one job is optional at the default threshold
InitScore ==
    /\ skills = SkillsTable(<< [skill_abr |-> "S1", skill_name |-> Python],
                               [skill_abr |-> "S2", skill_name |-> SQL],
                               [skill_abr |-> "S3", skill_name |-> Excel] >>)
    /\ industries = IndustryCatalog
    /\ job_industries =
           JobIndustryLinks(<<"J1", "J2", "J3", "J4">>,
                            [j \in {"J1", "J2", "J3", "J4"} |-> <<"I2">>])
    /\ job_skills \in JobSkillLinks({"J1", "J2"}, {"S1", "S2"})
    /\ resume_text = Python
    /\ NothingDerived

\* the characters of a resume: letters of both cases, a separator, and the
\* underscore (a word character that no pattern contains)
TextChars == {"a", "c", "C", " ", "_"}

\* names whose patterns are a|c, ca, c| (trailing separator), |a (leading
\* separator), | and the empty pattern
SkillNames ==
    { <<"a", " ", "c">>, <<"C", "a">>, <<"C", "+", "+">>, <<".", "a">>,
      <<"+", "+">>, <<>> }

\* inputs that vary the skill names and the resume text; S1 is required and
\* S2 optional in the profile, and S9 may be linked without a catalog entry
InitReport ==
    /\ skills \in {SkillsTable(<< [skill_abr |-> "S1", skill_name |-> n],
                                  [skill_abr |-> "S2", skill_name |-> <<"A">>] >>) :
                      n \in SkillNames}
    /\ industries = IndustryCatalog
    /\ job_industries =
           JobIndustryLinks(<<"J1", "J2", "J3", "J4">>,
                            [j \in {"J1", "J2", "J3", "J4"} |-> <<"I2">>])
    /\ job_skills \in
           {JobSkillsTable(<< [job_id |-> "J1", skill_abr |-> "S1"],
                              [job_id |-> "J2", skill_abr |-> "S1"],
                              [job_id |-> "J1", skill_abr |-> "S2"] >> \o extra) :
               extra \in {<<>>, << [job_id |-> "J3", skill_abr |-> "S9"],
                                   [job_id |-> "J4", skill_abr |-> "S9"] >>}}
    /\ resume_text \in SeqsUpTo(TextChars, MaxText)
    /\ NothingDerived

\* ----------------------------------------------------------------- pipeline

\* line 188
AssignRoles ==
    /\ pc = "loaded"
    /\ industries' = AssignRolesColumn(industries)
    /\ pc' = "classified"
    /\ UNCHANGED <<skills, job_skills, job_industries, resume_text, job_roles,
                   role_profiles, ret>>

\* lines 191-193
BuildJobRoles ==
    /\ pc = "classified"
    /\ job_roles' = MergeJobRoles(job_industries, ExplodeRoles(industries))
    /\ pc' = "indexed"
    /\ UNCHANGED <<skills, job_skills, industries, job_industries, resume_text,
                   role_profiles, ret>>

\* line 225: one call of build_role_skill_profile per key of ROLE_KEYWORDS
BuildRoleProfiles ==
    /\ pc = "indexed"
    /\ \E p1 \in build_role_skill_profile(RoleOrder[1], DefaultMinJobs, DefaultRequiredPct),
          p2 \in build_role_skill_profile(RoleOrder[2], DefaultMinJobs, DefaultRequiredPct),
          p3 \in build_role_skill_profile(RoleOrder[3], DefaultMinJobs, DefaultRequiredPct),
          p4 \in build_role_skill_profile(RoleOrder[4], DefaultMinJobs, DefaultRequiredPct),
          p5 \in build_role_skill_profile(RoleOrder[5], DefaultMinJobs, DefaultRequiredPct) :
            role_profiles' = (RoleOrder[1] :> p1) @@ (RoleOrder[2] :> p2)
                             @@ (RoleOrder[3] :> p3) @@ (RoleOrder[4] :> p4)
                             @@ (RoleOrder[5] :> p5)
    /\ pc' = "profiled"
    /\ UNCHANGED <<skills, job_skills, industries, job_industries, resume_text,
                   job_roles, ret>>

\* line 245
BuildPatterns ==
    /\ pc = "profiled"
    /\ skills' = AddPatternColumn(skills)
    /\ pc' = "ready"
    /\ UNCHANGED <<job_skills, industries, job_industries, resume_text, job_roles,
                   role_profiles, ret>>

Pipeline == AssignRoles \/ BuildJobRoles \/ BuildRoleProfiles \/ BuildPatterns

\* -------------------------------------------------------------------- calls

\* the thresholds a profile is requested with
RequiredPcts == {Frac(3, 10), Frac(1, 2), Frac(1, 1)}

\* the weights a score is requested with
Weights == {-1, 0, 1, 2, 3}

\* the skill identifiers a caller may pass
SkillIds == {"S1", "S2", "S3"}

\* a call of build_role_skill_profile(role, required_pct=...)
BuildProfileCall ==
    /\ pc = "ready"
    /\ ret.op = "none"
    /\ \E role \in Roles, required_pct \in RequiredPcts :
          \E prof \in build_role_skill_profile(role, DefaultMinJobs, required_pct) :
              ret' = [op |-> "build_profile", role |-> role,
                      required_pct |-> required_pct, profile |-> prof]
    /\ UNCHANGED <<skills, job_skills, industries, job_industries, resume_text,
                   job_roles, role_profiles, pc>>

\* a call of fit_score(resume_skills, role_profiles[role], required_weight)
FitScoreCall ==
    /\ pc = "ready"
    /\ ret.op = "none"
    /\ \E role \in Roles, resume_skills \in SUBSET SkillIds, required_weight \in Weights :
          \E order \in Orders(resume_skills) :
              ret' = [op |-> "fit_score", resume_skills |-> resume_skills,
                      profile |-> role_profiles[role],
                      required_weight |-> required_weight,
                      result |-> fit_score(order, role_profiles[role], required_weight)]
    /\ UNCHANGED <<skills, job_skills, industries, job_industries, resume_text,
                   job_roles, role_profiles, pc>>

\* a call of extract_resume_skills(resume_text)
ExtractCall ==
    /\ pc = "ready"
    /\ ret.op = "none"
    /\ ret' = [op |-> "extract", found |-> extract_resume_skills(resume_text)]
    /\ UNCHANGED <<skills, job_skills, industries, job_industries, resume_text,
                   job_roles, role_profiles, pc>>

\* a call of build_fit_report("R1", resume_text, role)
ReportCall ==
    /\ pc = "ready"
    /\ ret.op = "none"
    /\ \E role \in Roles :
          \E order \in Orders(extract_resume_skills(resume_text)) :
              ret' = [op |-> "build_report", role |-> role,
                      result |-> build_fit_report("R1", resume_text, role, order)]
    /\ UNCHANGED <<skills, job_skills, industries, job_industries, resume_text,
                   job_roles, role_profiles, pc>>

\* the caller takes the result; the next call can be made
Discard ==
    /\ pc = "ready"
    /\ ret.op # "none"
    /\ ret' = [op |-> "none"]
    /\ UNCHANGED <<skills, job_skills, industries, job_industries, resume_text,
                   job_roles, role_profiles, pc>>

NextProfile == Pipeline \/ BuildProfileCall \/ Discard

NextScore == Pipeline \/ FitScoreCall \/ Discard

NextReport == Pipeline \/ ExtractCall \/ ReportCall \/ Discard

SpecProfile == InitProfile /\ [][NextProfile]_vars

SpecScore == InitScore /\ [][NextScore]_vars

SpecReport == InitReport /\ [][NextReport]_vars

\* ================================================================== claims

\* the jobs mapped to a role, read off the input tables: a job belongs to the
\* role when one of its industries has a name containing a keyword of the role
JobsMappedTo(role) ==
    LET ids == {industries.rows[n].industry_id :
                   n \in {m \in DOMAIN industries.rows :
                             LET name == Lower(industries.rows[m].industry_name)
                             IN  \E kw \in Range(ROLE_KEYWORDS[role]) :
                                    IsSubstring(kw, name)}}
    IN  {job_industries.rows[i].job_id :
            i \in {k \in DOMAIN job_industries.rows :
                      job_industries.rows[k].industry_id \in ids}}

\* the number of job-skill rows of a skill among the jobs given
LinkRows(jobs, abr) ==
    Cardinality({i \in DOMAIN job_skills.rows :
                    /\ job_skills.rows[i].skill_abr = abr
                    /\ job_skills.rows[i].job_id \in jobs})

\* the skills linked to one of the jobs given
LinkedSkills(jobs) ==
    {job_skills.rows[i].skill_abr :
        i \in {k \in DOMAIN job_skills.rows : job_skills.rows[k].job_id \in jobs}}

CatalogSkills == {skills.rows[i].skill_abr : i \in DOMAIN skills.rows}

\* the profiles in existence: the one just returned and those of role_profiles
ProfileReturned == ret.op = "build_profile"

ReportReturned == ret.op = "build_report" /\ ~ret.result.raised

\* ---- C1
\* C1: for a role with no job mapped to it, the stored profile is empty and
\* build_fit_report returns, without raising, a report with fit_score 0.0 and
\* empty matched_skills and missing_skills.
C1_ZeroJobsReport ==
    (ret.op = "build_report" /\ JobsMappedTo(ret.role) = {}) =>
        /\ role_profiles[ret.role].rows = <<>>
        /\ ~ret.result.raised
        /\ ret.result.value.fit_score = 0
        /\ ret.result.value.matched_skills = <<>>
        /\ ret.result.value.missing_skills = <<>>

\* ---- C2
\* C2: fit_score returns (w * |rs \cap required| + |rs \cap optional|) / denom
\* with denom = w * |required| + |optional|, and 0.0 when denom = 0, for every
\* profile, whatever the iteration order of rs; it does not fail.
C2_FitScoreFormula ==
    ret.op = "fit_score" =>
        LET rs    == ret.resume_skills
            w     == ret.required_weight
            rows  == ret.profile.rows
            req   == {rows[i].skill_abr : i \in {k \in DOMAIN rows : rows[k].required}}
            opt   == {rows[i].skill_abr : i \in {k \in DOMAIN rows : ~rows[k].required}}
            denom == w * Cardinality(req) + Cardinality(opt)
        IN  /\ ~ret.result.raised
            /\ IF denom = 0
               THEN ret.result.value.num = 0
               ELSE FracEq(ret.result.value,
                           Frac(w * Cardinality(rs \cap req) + Cardinality(rs \cap opt),
                                denom))
            /\ (rs = {} /\ rows # <<>>) => ret.result.value.num = 0

\* C2 on the frames that have the profile's columns: the formula holds for
\* every profile built from at least one job
C2_FormulaOnBuiltProfiles ==
    (ret.op = "fit_score" /\ HasColumn(ret.profile, "required")) => C2_FitScoreFormula

\* ---- C3
\* C3: for a positive weight the score is a number of [0,1], it is 1 when the
\* resume holds every skill of a non-empty profile, and the skills of the
\* resume that the profile does not list do not change it.
C3_ScoreInUnitInterval ==
    (ret.op = "fit_score" /\ ret.required_weight > 0) =>
        LET rows == ret.profile.rows
            abrs == {rows[i].skill_abr : i \in DOMAIN rows}
            v    == ret.result.value
        IN  /\ ~ret.result.raised
            /\ 0 <= v.num /\ v.num <= v.den
            /\ (rows # <<>> /\ abrs \subseteq ret.resume_skills) => v.num = v.den
            /\ \A o \in Orders(ret.resume_skills \cap abrs) :
                  LET u == fit_score(o, ret.profile, ret.required_weight).value
                  IN  FracEq(u, v)

\* C3 on the frames that have the profile's columns
C3_RangeOnBuiltProfiles ==
    (ret.op = "fit_score" /\ HasColumn(ret.profile, "required")) => C3_ScoreInUnitInterval

\* ---- C4
\* C4: every entry of a profile has 0 <= pct_jobs <= 1, duplicate job-skill
\* rows included.
C4_PctJobsInUnitInterval ==
    ProfileReturned =>
        \A i \in DOMAIN ret.profile.rows :
            /\ 0 <= ret.profile.rows[i].pct_jobs.num
            /\ ret.profile.rows[i].pct_jobs.num <= ret.profile.rows[i].pct_jobs.den

\* ---- C5
\* C5: every entry of a profile built for (role, required_pct) has
\* pct_jobs = count / N and required = (pct_jobs >= required_pct), count being
\* the number of link rows of the skill among the role's jobs and N the number
\* of distinct jobs mapped to the role; a skill required at a higher threshold
\* is required at every lower one.
C5_PctAndRequired ==
    ProfileReturned =>
        LET jobs == JobsMappedTo(ret.role)
            n    == Cardinality(jobs)
            p    == ret.required_pct
        IN  /\ \A i \in DOMAIN ret.profile.rows :
                  LET e == ret.profile.rows[i]
                  IN  /\ e.count = LinkRows(jobs, e.skill_abr)
                      /\ e.pct_jobs.num = e.count /\ e.pct_jobs.den = n
                      /\ e.required = (e.count * p.den >= p.num * n)
            /\ \A q \in RequiredPcts :
                  (FracGE(q, p) /\ q # p /\ n > 0) =>
                      LET hi == ProfileRows(ret.role, JobIdsOfRole(ret.role), q)
                      IN  \A j \in DOMAIN hi : \A i \in DOMAIN ret.profile.rows :
                              (hi[j].skill_abr = ret.profile.rows[i].skill_abr
                                  /\ hi[j].required)
                              => ret.profile.rows[i].required

\* C5 witness: a job linked to two industries of the role counts once, and the
\* profile holds a required and an optional skill
C5_Witness ==
    /\ ProfileReturned
    /\ ret.role = "FRONTEND_DEV"
    /\ Cardinality(JobsMappedTo(ret.role)) = 2
    /\ Len(SelectSeq(job_roles.rows, LAMBDA r : r.role = ret.role)) > 2
    /\ \E i, j \in DOMAIN ret.profile.rows :
          ret.profile.rows[i].required /\ ~ret.profile.rows[j].required

\* ---- C6
\* the ascending order of the skill identifiers
AbrOrder == <<"S1", "S2", "S3", "S9">>

AbrRank(a) == CHOOSE i \in DOMAIN AbrOrder : AbrOrder[i] = a

\* C6 as claimed: a profile is ordered by pct_jobs descending and, among equal
\* pct_jobs, by skill_abr ascending.
C6_TieBreakBySkillAbr ==
    ProfileReturned =>
        \A i, j \in DOMAIN ret.profile.rows :
            i < j =>
                LET a == ret.profile.rows[i]
                    b == ret.profile.rows[j]
                IN  \/ a.pct_jobs.num * b.pct_jobs.den > b.pct_jobs.num * a.pct_jobs.den
                    \/ /\ a.pct_jobs.num * b.pct_jobs.den = b.pct_jobs.num * a.pct_jobs.den
                       /\ AbrRank(a.skill_abr) <= AbrRank(b.skill_abr)

\* C6 amended: a profile, returned by a call or stored in role_profiles, is
\* ordered by pct_jobs descending (nothing more is fixed among equal pct_jobs).
C6_SortedByPctDesc ==
    /\ ProfileReturned =>
          \A i, j \in DOMAIN ret.profile.rows :
              i < j => ret.profile.rows[i].pct_jobs.num * ret.profile.rows[j].pct_jobs.den
                       >= ret.profile.rows[j].pct_jobs.num * ret.profile.rows[i].pct_jobs.den
    /\ pc \in {"profiled", "ready"} =>
          \A r \in Roles : \A i, j \in DOMAIN role_profiles[r].rows :
              i < j => role_profiles[r].rows[i].count >= role_profiles[r].rows[j].count

\* C6 witness: a profile of two skills of different pct_jobs
C6_Witness ==
    /\ ProfileReturned
    /\ Len(ret.profile.rows) = 2
    /\ ret.profile.rows[1].pct_jobs.num > ret.profile.rows[2].pct_jobs.num
    /\ ret.profile.rows[1].skill_abr = "S2"

\* ---- C7
\* C7: in a returned report matched_skills is the skill_name of the profile
\* entries whose skill is in the extracted set, and missing_skills that of the
\* required entries whose skill is not, both in profile order; the optional
\* entries absent from the resume are in neither list.
C7_MatchedAndMissing ==
    ReportReturned =>
        LET rs   == extract_resume_skills(resume_text)
            rows == role_profiles[ret.role].rows
            rep  == ret.result.value
            hit  == SelectSeq(rows, LAMBDA e : e.skill_abr \in rs)
            miss == SelectSeq(rows, LAMBDA e : e.required /\ e.skill_abr \notin rs)
            rest == SelectSeq(rows, LAMBDA e : ~e.required /\ e.skill_abr \notin rs)
        IN  /\ rep.matched_skills = [i \in DOMAIN hit |-> hit[i].skill_name]
            /\ rep.missing_skills = [i \in DOMAIN miss |-> miss[i].skill_name]
            /\ Len(rep.matched_skills) + Len(rep.missing_skills) + Len(rest) = Len(rows)

\* C7 witness: a report with a matched skill, a missing required skill and an
\* optional skill that the resume lacks
C7_Witness ==
    /\ ReportReturned
    /\ Len(ret.result.value.matched_skills) = 1
    /\ Len(ret.result.value.missing_skills) = 1
    /\ Len(role_profiles[ret.role].rows) = 3

\* ---- C8
\* the word-like tokens of a name: the maximal runs of [a-z0-9] of the
\* lower-cased name
TokensOf(name) ==
    LET s == Lower(name)
    IN  {SubSeq(s, i, j) : <<i, j>> \in
            {ij \in (DOMAIN s) \X (DOMAIN s) :
                /\ ij[1] <= ij[2]
                /\ \A k \in ij[1]..ij[2] : IsTokenChar(s[k])
                /\ (ij[1] = 1 \/ ~IsTokenChar(s[ij[1] - 1]))
                /\ (ij[2] = Len(s) \/ ~IsTokenChar(s[ij[2] + 1]))}}

\* the token occurs in the text with no word character on either side
OccursAsWord(tok, text) ==
    \E i \in 0..(Len(text) - Len(tok)) :
        /\ \A k \in 1..Len(tok) : text[i + k] = tok[k]
        /\ (i = 0 \/ ~IsWordChar(text[i]))
        /\ (i + Len(tok) = Len(text) \/ ~IsWordChar(text[i + Len(tok) + 1]))

\* C8: a skill is extracted exactly when its pattern is not empty or "|" and
\* one of the tokens of its name occurs in the lower-cased text as a whole word.
C8_ExtractIffTokenOccurs ==
    ret.op = "extract" =>
        \A i \in DOMAIN skills.rows :
            (skills.rows[i].skill_abr \in ret.found)
            <=> /\ ~IsSkipped(skills.rows[i].pattern)
                /\ \E tok \in TokensOf(skills.rows[i].skill_name) :
                      OccursAsWord(tok, Lower(resume_text))

\* ---- C9
\* the rows of a table on the columns given
Projected(df, cols) == [i \in DOMAIN df.rows |-> [c \in Range(cols) |-> df.rows[i][c]]]

\* C9 as claimed: no step changes the rows or the columns of an input table.
C9_InputsNeverChange ==
    [][/\ skills' = skills
       /\ job_skills' = job_skills
       /\ industries' = industries
       /\ job_industries' = job_industries]_vars

\* C9 amended: no step changes the job-skill links or the job-industry links,
\* nor the rows of the skill and industry catalogs on the columns they were
\* delivered with; the only change is a derived column added to a catalog.
C9_DeliveredDataKept ==
    [][/\ job_skills' = job_skills
       /\ job_industries' = job_industries
       /\ SubSeq(skills'.cols, 1, Len(skills.cols)) = skills.cols
       /\ Projected(skills', skills.cols) = Projected(skills, skills.cols)
       /\ SubSeq(industries'.cols, 1, Len(industries.cols)) = industries.cols
       /\ Projected(industries', industries.cols) = Projected(industries, industries.cols)
       /\ Range(skills'.cols) \ Range(skills.cols) \subseteq {"pattern"}
       /\ Range(industries'.cols) \ Range(industries.cols) \subseteq {"roles"}]_vars

\* C9 witness: the whole pipeline has run and a report was built, and both
\* catalogs carry their derived column
C9_Witness ==
    /\ ReportReturned
    /\ HasColumn(industries, "roles")
    /\ HasColumn(skills, "pattern")
    /\ Len(industries.rows) = 3

\* ---- C10
\* C10: a skill linked to a job of the role but absent from the catalog has
\* exactly one entry in the profile, with a missing name and with count,
\* pct_jobs and required computed as for the other skills.
C10_UnmatchedSkillKept ==
    ProfileReturned =>
        LET jobs == JobsMappedTo(ret.role)
            n    == Cardinality(jobs)
        IN  \A a \in LinkedSkills(jobs) \ CatalogSkills :
            LET at == {i \in DOMAIN ret.profile.rows : ret.profile.rows[i].skill_abr = a}
            IN  /\ Cardinality(at) = 1
                /\ \A i \in at :
                      LET e == ret.profile.rows[i]
                      IN  /\ e.skill_name = NaN
                          /\ e.count = LinkRows(jobs, a)
                          /\ e.pct_jobs = Frac(e.count, n)
                          /\ e.required = (e.count * ret.required_pct.den
                                           >= ret.required_pct.num * n)

\* C10 witness: a profile with an entry of a skill the catalog does not hold,
\* beside one it holds
C10_Witness ==
    /\ ProfileReturned
    /\ LinkedSkills(JobsMappedTo(ret.role)) \ CatalogSkills # {}
    /\ \E i, j \in DOMAIN ret.profile.rows :
          /\ ret.profile.rows[i].skill_name = NaN
          /\ ret.profile.rows[j].skill_name # NaN

====
